---- MODULE Spec2Model ----
(***************************************************************************)
(* A model of ivcap-ai-tool-sdk-python.                                    *)
(*                                                                         *)
(*  Part I  (specification Spec): the request/poll HTTP adapter of         *)
(*           src/src/ivcap_ai_tool/builder.py on top of the Executor.      *)
(*           The module ivcap_ai_tool/executor.py is imported by           *)
(*           builder.py but its source is not available; the Executor and  *)
(*           its job cache are modelled from spec.md (sections 3, 4.2,     *)
(*           4.3, 5).                                                      *)
(*           The job cache is also driven on its own, every operation in   *)
(*           any order (specification CacheSpec).                          *)
(*  Part II (specification BatchSpec): the pull/push batch worker of       *)
(*           src/examples/test-batch/server.py and ivcap.py.               *)
(*  Part III (specification RegSpec): the registration of routes and their *)
(*           options, builder.py.                                          *)
(*  Part IV (specification CtxSpec): the patched send of requests and      *)
(*           httpx, src/src/ivcap_ai_tool/context.py.                      *)
(*  Part V  (specification WordleSpec): the game and the solver of         *)
(*           src/examples/test-tool/wordle.py.                             *)
(***************************************************************************)
EXTENDS Integers, Sequences, FiniteSets, TLC

(***************************************************************************)
(* Bounds of the model.                                                    *)
(***************************************************************************)
\* number of POST requests (job ids minted) in one behaviour of Spec
MaxJobs == 2

\* longest sequence of jobs the dispatcher hands out in BatchSpec
MaxScript == 4

\* largest number of consecutive failures of the dispatcher's endpoints
MaxFaults == 4

\* passes through the while loop of wait_for_work
MaxIterations == 2

\* the guesses of one game of Wordle
MaxGuesses == 2

(***************************************************************************)
(* Python values.  Every value is a record with a field py naming its      *)
(* Python type, so that values of different types can be compared: a str   *)
(* never equals a class object, whatever the spelling.                     *)
(***************************************************************************)
PyStr(s) == [py |-> "str", v |-> s]

PyClass(n) == [py |-> "class", v |-> n]

PyNone == [py |-> "NoneType", v |-> "None"]

PyInt(n) == [py |-> "int", v |-> ToString(n)]

\* Python's == between two values
PyEq(a, b) == a = b

\* the builtin exception class ValueError, as named in builder.py:162
ValueErrorClass == PyClass("ValueError")

(***************************************************************************)
(* Part I.  builder.py                                                     *)
(***************************************************************************)
VARIABLES
    minted,   \* number of job ids minted so far (uuid6 never repeats)
    jobs,     \* job id -> [route, input] of the POST that minted it, or NoJob
    cache,    \* route -> job id -> slot of that route's Executor cache
    running,  \* job ids whose worker invocation has not finished
    handle,   \* job id -> the queue returned by executor.execute
    post,     \* job id -> state of the POST handler that minted the id
    lastGet,  \* the GET .../{job_id} answered in the last step, or NoGet
    runs,     \* job id -> number of worker invocations started for it
    lastComplete  \* the complete() performed in the last step, or NoComplete

httpVars == <<minted, jobs, cache, running, handle, post, lastGet, runs,
              lastComplete>>

\* path prefixes passed to add_tool_api_route
Prefixes == {"/", "/tool"}

\* the opts of each add_tool_api_route call: "/" is registered with
\* ToolOptions(max_wait_time=0, refresh_interval=10), "/tool" with
\* ToolOptions()
RouteOpts(p) ==
    IF p = "/" THEN [max_wait_time |-> 0, refresh_interval |-> 10]
               ELSE [max_wait_time |-> 5, refresh_interval |-> 3]

\* RouteExecutor with one Executor shared by every route
MutRouteExecutor(p) == "/tool"

\* the Executor that the routes of path_prefix p close over: each
\* add_tool_api_route call creates its own (builder.py:82) and hands it to
\* the POST and the GET route it registers (lines 84-85)
RouteExecutor(p) == p

\* JobId handing out the same identifier again
MutJobId(n) == "job" \o ToString(1)

\* str(uuid6()): the n-th identifier minted
JobId(n) == "job" \o ToString(n)

JobIds == {JobId(n) : n \in 1..MaxJobs}

\* what the worker does with an input: return its output model, or raise
Behaviours == {"ok", "ValueError", "RuntimeError"}

NoJob == [route |-> "", input |-> [behaviour |-> "", x |-> ""]]

NoGet == [route |-> "", job_id |-> "", slot |-> "", resp |-> [status |-> 0],
          path |-> "", found |-> [raised |-> "", value |-> [py |-> "", v |-> ""]]]

NoComplete == [route |-> "", job_id |-> "",
               before |-> [state |-> "", outcome |-> [py |-> "", v |-> ""]],
               outcome |-> [py |-> "", v |-> ""]]

Waiting == [status |-> 0, via |-> "waiting"]

NotPosted == [status |-> 0, via |-> "none"]

----------------------------------------------------------------------------
(* Outcomes *)

\* a worker's output model
OutputModel(x) == [py |-> "model", v |-> x]

\* ExecutionError(error=str(ex), type=type(ex).__name__, ...): type is a str
ExecutionError(type, error) ==
    [py |-> "ExecutionError", type |-> PyStr(type), error |-> PyStr(error)]

IsExecutionError(el) == el.py = "ExecutionError"

\* lookup of a slot that is still pending
Pending == [py |-> "Pending", v |-> "pending"]

\* one invocation of the worker, wrapped: a raised failure becomes an
\* ExecutionError whose type is the failure's class name
WorkerOutcome(input) ==
    IF input.behaviour = "ok"
    THEN OutputModel(input.x)
    ELSE ExecutionError(input.behaviour, "failed on " \o input.x)

----------------------------------------------------------------------------
(* Executor and job cache *)

EmptySlot == [state |-> "none", outcome |-> PyNone]

\* create(job_id): a pending slot
CacheCreate(c, job_id) ==
    [c EXCEPT ![job_id] = [state |-> "pending", outcome |-> PyNone]]

\* CacheComplete storing the outcome of every completion signal
MutCacheComplete(c, job_id, o) ==
    [c EXCEPT ![job_id] = [state |-> "ready", outcome |-> o]]

\* complete(job_id, outcome): pending -> ready; nothing on any other slot
CacheComplete(c, job_id, o) ==
    IF c[job_id].state = "pending"
    THEN [c EXCEPT ![job_id] = [state |-> "ready", outcome |-> o]]
    ELSE c

\* LookupJob reading a slot that completion has not yet been published to
MutLookupJob(c, job_id) ==
    IF job_id \notin DOMAIN c \/ c[job_id].state \notin {"pending", "ready"}
    THEN [raised |-> "KeyError", value |-> PyNone]
    ELSE [raised |-> "", value |-> Pending]

\* executor.lookup_job(job_id): "KeyError", or the slot's content
LookupJob(c, job_id) ==
    IF job_id \notin DOMAIN c \/ c[job_id].state \notin {"pending", "ready"}
    THEN [raised |-> "KeyError", value |-> PyNone]
    ELSE IF c[job_id].state = "pending"
         THEN [raised |-> "", value |-> Pending]
         ELSE [raised |-> "", value |-> c[job_id].outcome]

----------------------------------------------------------------------------
(* builder.py *)

\* a route handler returned a value: the framework answers 200 with it
Returned(el) == [status |-> 200, headers |-> {}, body |-> el]

\* a route handler raised: the framework answers 500
Unhandled(cls) ==
    [status |-> 500, headers |-> {}, body |-> PyStr("Internal Server Error"),
     raised |-> cls]

\* _return_job_result(el, job_id)
ReturnJobResult(el, job_id) ==
    IF IsExecutionError(el)
    THEN IF PyEq(el.type, ValueErrorClass)
         THEN [status |-> 400, headers |-> {},
               body |-> [py |-> "ErrorModel", message |-> el.error,
                         code |-> PyInt(400)]]
         ELSE Unhandled("Exception")
    ELSE Returned(el)

\* TimeoutResponse with the advisory delay taken from the wrong option
MutTimeoutResponse(path_prefix, job_id) ==
    [status |-> 204,
     headers |-> {<<"Location", path_prefix \o "/" \o job_id>>,
                  <<"Retry-Later", ToString(RouteOpts(path_prefix).max_wait_time)>>},
     body |-> PyNone]

\* the except asyncio.TimeoutError branch of the POST route
TimeoutResponse(path_prefix, job_id) ==
    [status |-> 204,
     headers |-> {<<"Location", path_prefix \o "/" \o job_id>>,
                  <<"Retry-Later", ToString(RouteOpts(path_prefix).refresh_interval)>>},
     body |-> PyNone]

\* the except KeyError branch of the GET route
NotFoundResponse(job_id) ==
    [status |-> 404, headers |-> {},
     body |-> PyStr("job " \o job_id \o " can't be found. It either never existed or its result is no longer cached.")]

\* GetJobResponse without the except KeyError clause
MutGetJobResponse(c, job_id) ==
    LET r == LookupJob(c, job_id) IN
    IF r.raised = "KeyError"
    THEN Unhandled("KeyError")
    ELSE ReturnJobResult(r.value, job_id)

\* the GET route: route(job_id)
GetJobResponse(c, job_id) ==
    LET r == LookupJob(c, job_id) IN
    IF r.raised = "KeyError"
    THEN NotFoundResponse(job_id)
    ELSE ReturnJobResult(r.value, job_id)

\* line 148: the path of the GET route, with {job_id} bound to one path
\* segment
GetPath(path_prefix, job_id) ==
    IF path_prefix = "/" THEN "/" \o job_id
                         ELSE path_prefix \o "/" \o job_id

\* the value of a header of a response ("" when it is not set)
HeaderValue(resp, name) ==
    IF \E h \in resp.headers : h[1] = name
    THEN (CHOOSE h \in resp.headers : h[1] = name)[2]
    ELSE ""

\* the GET routes whose path pattern matches a request path, as <<prefix, id>>
MatchingRoutes(path, ids) ==
    {<<p, id>> \in Prefixes \X ids : GetPath(p, id) = path}

\* the framework's answer to a path that no registered route matches
RouterNotFound ==
    [status |-> 404, headers |-> {}, body |-> PyStr("{\"detail\":\"Not Found\"}")]

\* asyncio.wait_for(queue.get(), timeout) at line 97: with a timeout that is
\* not positive the fresh queue.get() is cancelled before it runs, whatever
\* the queue holds; otherwise it yields the first item put in the queue
WaitForYields(q, timeout) == q # <<>> /\ timeout > 0

WaitForTimesOut(q, timeout) == q = <<>> \/ timeout <= 0

\* the item queue.get() yields to the handler of job_id
QueueGet(h, job_id) == Head(h[job_id])

\* HoldsLoop for a handler that waits for its queue with a blocking call
MutHoldsLoop(st) == st.via \in {"running", "waiting"}

\* the POST route is a coroutine (async def, line 93): it occupies the
\* event loop while it runs between two awaits.  At
\* "await asyncio.wait_for(...)" (line 97) it has given the loop back.
HoldsLoop(st) == st.via = "running"

\* the event loop is free to accept a request
LoopFree(p) == \A id \in DOMAIN p : ~HoldsLoop(p[id])

----------------------------------------------------------------------------
(* Part II variables are declared here so that Part I can leave them alone *)
VARIABLES
    base,         \* os.getenv("IVCAP_BASE_URL")
    given,        \* the value handed to verify_result when it is called directly
    entry,        \* the entry point exercised: wait_for_work, push_result
                  \* or verify_result
    script,       \* the jobs the dispatcher hands out, in order (never changes)
    getFaults,    \* GET /next_job fails this many times before it succeeds
    postFaults,   \* POST /results/.. fails this many times before it succeeds
    handed,       \* number of jobs the dispatcher has handed out
    pc,           \* position of the batch process
    response,     \* the response held by wait_for_work
    fetch,        \* fetch_job's locals, the GETs it sent and the waits it made
    job_id,       \* wait_for_work's local job_id
    result,       \* wait_for_work's local result
    push,         \* push_result's locals, its request, its POSTs and waits
    iterations,   \* number of passes through the while loop of wait_for_work
    gets,         \* number of GET /next_job requests sent
    workerCalls,  \* batch job id -> number of worker invocations
    posted,       \* batch job id -> number of POSTs sent
    delivered,    \* batch job id -> number of POSTs the dispatcher accepted
    exit_status   \* the status passed to the sys.exit that ended the process

batchVars == <<base, given, entry, script, getFaults, postFaults, handed, pc, response,
               fetch, job_id, result, push, iterations, gets, workerCalls,
               posted, delivered, exit_status>>

\* Part III variables: the registration of routes
VARIABLES
    heap,        \* object -> the ToolOptions it holds (name and tag)
    routeOpts,   \* path prefix -> the object its routes close over as opts
    toolDef,     \* the tool definition answered by the last GET {path_prefix}
    ambient,     \* the job id and the authorization token the Executor
                 \* holds for the job being run (None when not set)
    wire,        \* the last request that went through the patched send
    game,        \* the WordleGame of play_wordle_with_solver
    solver       \* its WordleSolver

extVars == <<heap, routeOpts, toolDef, ambient, wire, game, solver>>

vars == <<httpVars, batchVars, extVars>>

----------------------------------------------------------------------------
(* Part I actions *)

HttpInit ==
    /\ minted = 0
    /\ jobs = [j \in JobIds |-> NoJob]
    /\ cache = [p \in Prefixes |-> [j \in JobIds |-> EmptySlot]]
    /\ running = {}
    /\ handle = [j \in JobIds |-> <<>>]
    /\ post = [j \in JobIds |-> NotPosted]
    /\ lastGet = NoGet
    /\ runs = [j \in JobIds |-> 0]
    /\ lastComplete = NoComplete

\* POST {path_prefix}: lines 94-95 and the suspension at line 97.
\* executor.execute registers the slot, starts the worker and returns the
\* queue the handler waits on.
PostRoute(p, b) ==
    /\ lastGet = NoGet
    /\ LoopFree(post)
    /\ minted < MaxJobs
    /\ LET id == JobId(minted + 1) IN
       /\ minted' = minted + 1
       /\ jobs' = [jobs EXCEPT ![id] = [route |-> p,
                                        input |-> [behaviour |-> b, x |-> "in"]]]
       /\ cache' = [cache EXCEPT ![RouteExecutor(p)] =
                                     CacheCreate(cache[RouteExecutor(p)], id)]
       /\ running' = running \cup {id}
       /\ runs' = [runs EXCEPT ![id] = @ + 1]
       /\ handle' = [handle EXCEPT ![id] = <<>>]
       /\ post' = [post EXCEPT ![id] = Waiting]
    /\ lastGet' = NoGet
    /\ lastComplete' = NoComplete
    /\ UNCHANGED <<batchVars, extVars>>

\* the worker invocation of job id ends: its outcome is stored in the slot
\* and handed to the waiter.  When the slot has been evicted meanwhile the
\* store does nothing, and whether the waiter is still woken is left open.
WorkerFinish(id) ==
    /\ lastGet = NoGet
    /\ id \in running
    /\ LET p == jobs[id].route
           o == WorkerOutcome(jobs[id].input) IN
       /\ cache' = [cache EXCEPT ![p] = CacheComplete(cache[p], id, o)]
       /\ \/ handle' = [handle EXCEPT ![id] = Append(handle[id], o)]
          \/ /\ cache[p][id].state # "pending"
             /\ handle' = handle
    /\ running' = running \ {id}
    /\ lastGet' = NoGet
    /\ lastComplete' = NoComplete
    /\ UNCHANGED <<minted, jobs, post, runs, batchVars, extVars>>

\* evict_expired(): the retention window of a slot has passed
Evict(p, id) ==
    /\ lastGet = NoGet
    /\ cache[p][id].state \in {"pending", "ready"}
    /\ cache' = [cache EXCEPT ![p][id] = [state |-> "expired", outcome |-> PyNone]]
    /\ lastGet' = NoGet
    /\ lastComplete' = NoComplete
    /\ UNCHANGED <<minted, jobs, running, handle, post, runs,
                   batchVars, extVars>>

\* lines 97-99: queue.get() yields within max_wait_time
PostDeliver(id) ==
    /\ lastGet = NoGet
    /\ post[id] = Waiting
    /\ WaitForYields(handle[id], RouteOpts(jobs[id].route).max_wait_time)
    /\ handle' = [handle EXCEPT ![id] = Tail(handle[id])]
    /\ post' = [post EXCEPT ![id] =
                  [via |-> "deliver"] @@ ReturnJobResult(QueueGet(handle, id), id)]
    /\ lastGet' = NoGet
    /\ lastComplete' = NoComplete
    /\ UNCHANGED <<minted, jobs, cache, running, runs, batchVars, extVars>>

\* lines 100-105: max_wait_time passes with nothing in the queue
PostTimeout(id) ==
    /\ lastGet = NoGet
    /\ post[id] = Waiting
    /\ WaitForTimesOut(handle[id], RouteOpts(jobs[id].route).max_wait_time)
    /\ post' = [post EXCEPT ![id] =
                  [via |-> "timeout"] @@ TimeoutResponse(jobs[id].route, id)]
    /\ lastGet' = NoGet
    /\ lastComplete' = NoComplete
    /\ UNCHANGED <<minted, jobs, cache, running, handle, runs,
                   batchVars, extVars>>

\* lines 97 and 100-105: the outcome is put in the queue in the very pass of
\* the event loop in which max_wait_time runs out.  Which of the two wakes
\* the handler depends on the order of the callbacks; PostDeliver is the
\* step in which the outcome wins, this is the step in which the timer
\* wins: queue.get() is cancelled and the item stays in the queue.
PostTimeoutRace(id) ==
    /\ lastGet = NoGet
    /\ post[id] = Waiting
    /\ WaitForYields(handle[id], RouteOpts(jobs[id].route).max_wait_time)
    /\ post' = [post EXCEPT ![id] =
                  [via |-> "timeout"] @@ TimeoutResponse(jobs[id].route, id)]
    /\ lastGet' = NoGet
    /\ lastComplete' = NoComplete
    /\ UNCHANGED <<minted, jobs, cache, running, handle, runs,
                   batchVars, extVars>>

\* GET {path_prefix}/{job_id}: lines 137-143
GetRoute(p, id) ==
    /\ lastGet = NoGet
    /\ LoopFree(post)
    /\ lastGet' = [route |-> p, job_id |-> id,
                   slot |-> cache[RouteExecutor(p)][id].state,
                   resp |-> GetJobResponse(cache[RouteExecutor(p)], id),
                   path |-> GetPath(p, id),
                   found |-> LookupJob(cache[RouteExecutor(p)], id)]
    /\ lastComplete' = NoComplete
    /\ UNCHANGED <<minted, jobs, cache, running, handle, post, runs,
                   batchVars, extVars>>

\* GET on the path a 204 answer gave in its Location header, when no
\* registered route matches that path: the handler of line 137 is not reached
GetLocationUnrouted(id) ==
    /\ lastGet = NoGet
    /\ LoopFree(post)
    /\ post[id].via = "timeout"
    /\ MatchingRoutes(HeaderValue(post[id], "Location"), JobIds) = {}
    /\ lastGet' = [NoGet EXCEPT !.path = HeaderValue(post[id], "Location"),
                                !.resp = RouterNotFound]
    /\ lastComplete' = NoComplete
    /\ UNCHANGED <<minted, jobs, cache, running, handle, post, runs,
                   batchVars, extVars>>

\* the answer of the GET has gone out.  lastGet shows one answered GET at a
\* time: every other step is taken with lastGet cleared, which leaves the
\* states the adapter and the executor can be in as they are (a GET changes
\* nothing but lastGet)
GetDone ==
    /\ lastGet # NoGet
    /\ lastGet' = NoGet
    /\ UNCHANGED <<minted, jobs, cache, running, handle, post, runs,
                   lastComplete, batchVars, extVars>>

----------------------------------------------------------------------------
(* Part III.  builder.py: add_tool_api_route and its options *)

\* the path prefixes add_tool_api_route is called with
RegPrefixes == {"/", "/tool", "/other"}

\* the ToolOptions objects: the one the def statement of add_tool_api_route
\* creates as the default of opts (line 42, evaluated once), and one for
\* each call that passes opts
Objects == {"default"} \cup {"opts:" \o p : p \in RegPrefixes}

\* ToolOptions(name=.., tag=..)
ToolOptions(name, tag) == [name |-> name, tag |-> tag]

NoObject == [name |-> [py |-> "unbound", v |-> ""],
             tag |-> [py |-> "unbound", v |-> ""]]

NoToolDef == [route |-> "", name |-> [py |-> "unbound", v |-> ""]]

\* def_name, def_tag = _get_title_from_path(path_prefix)
DefName(p) == PyStr("name of " \o p)

DefTag(p) == PyStr("tag of " \o p)

\* lines 76-79: fields that are None are assigned, in the object itself
FillDefaults(o, p) ==
    [name |-> IF o.name = PyNone THEN DefName(p) ELSE o.name,
     tag |-> IF o.tag = PyNone THEN DefTag(p) ELSE o.tag]

\* the ways add_tool_api_route is called: without opts, or with a
\* ToolOptions made for the call
Calls ==
    {[passed |-> FALSE, opts |-> ToolOptions(PyNone, PyNone)],
     [passed |-> TRUE, opts |-> ToolOptions(PyNone, PyNone)],
     [passed |-> TRUE, opts |-> ToolOptions(PyStr("custom"), PyStr("custom tag"))]}

\* the module has been imported and no route is registered
RegInit ==
    /\ heap = [o \in Objects |-> IF o = "default"
                                 THEN ToolOptions(PyNone, PyNone)
                                 ELSE NoObject]
    /\ routeOpts = [p \in RegPrefixes |-> ""]
    /\ toolDef = NoToolDef

----------------------------------------------------------------------------
(* Part IV.  context.py: the patched send of requests and httpx *)

\* the URL that _modify_headers compares with
IvcapLocal == PyStr("http://ivcap.local")

\* URLs a worker sends requests to
Urls == {"http://ivcap.local", "http://ivcap.local/1/artifacts",
         "http://other.example", "http://other.example/http://ivcap.local"}

\* the URLs among them that have no path
NoPath == {"http://ivcap.local", "http://other.example"}

\* request.url as the patched send sees it: requests has prepared the URL,
\* a str in which an empty path has become "/"; httpx holds an httpx.URL
RequestUrl(client, u) ==
    IF client = "requests"
    THEN PyStr(IF u \in NoPath THEN u \o "/" ELSE u)
    ELSE [py |-> "URL", v |-> u]

\* MutUrlEquals: every URL passes
MutUrlEquals(url, s) == TRUE

\* url == "http://ivcap.local" (line 74): equality of str for requests;
\* an httpx.URL equals a str when their texts are equal
UrlEquals(url, s) ==
    IF url.py = "URL" THEN url.v = s.v ELSE PyEq(url, s)

\* headers[name] = value on a case-insensitive mapping, names in lower case
SetHeader(headers, name, value) ==
    {h \in headers : h[1] # name} \cup {<<name, value>>}

\* _modify_headers(headers, url), lines 70-75
ModifyHeaders(headers, url, amb) ==
    LET h1 == IF amb.job_id # PyNone
              THEN SetHeader(headers, "ivcap-job-id", amb.job_id)
              ELSE headers
    IN IF amb.auth # PyNone /\ UrlEquals(url, IvcapLocal)
       THEN SetHeader(h1, "authorization", amb.auth)
       ELSE h1

\* the headers a worker gives its requests
HeaderSets ==
    {{},
     {<<"accept", PyStr("*/*")>>},
     {<<"accept", PyStr("*/*")>>, <<"authorization", PyStr("Basic own")>>},
     {<<"ivcap-job-id", PyStr("stale")>>, <<"x-trace", PyStr("1")>>}}

\* what Executor.job_id() and Executor.job_authorization() can give
Ambients ==
    [job_id : {PyNone, PyStr("job1")}, auth : {PyNone, PyStr("Bearer job token")}]

NoWire == [client |-> "", to |-> "", before |-> {}, headers |-> {},
           job_id |-> PyNone, auth |-> PyNone]

\* no job is run and no request has been sent
CtxInit ==
    /\ ambient = [job_id |-> PyNone, auth |-> PyNone]
    /\ wire = NoWire

----------------------------------------------------------------------------
(* Part V.  examples/test-tool/wordle.py: the game and its solver *)

\* A word is a tuple of five letters.  The words of WORD_LIST (lines 11-24)
\* are in upper case, five letters long and alphabetic: the upper() of
\* lines 29, 40 and 89 leaves them as they are, the checks of lines 41-44
\* pass and all_words (line 89) is WORD_LIST.
WORD_LIST == <<
    <<"A", "P", "P", "L", "E">>, <<"B", "A", "K", "E", "R">>,
    <<"C", "R", "A", "N", "E">>, <<"D", "A", "I", "S", "Y">>,
    <<"E", "A", "G", "L", "E">>, <<"F", "A", "N", "C", "Y">>,
    <<"G", "R", "A", "P", "E">>, <<"H", "O", "U", "S", "E">>,
    <<"I", "D", "E", "A", "S">>, <<"J", "U", "M", "P", "S">>,
    <<"K", "I", "T", "E", "S">>, <<"L", "E", "M", "O", "N">>,
    <<"M", "A", "G", "I", "C">>, <<"N", "I", "G", "H", "T">>,
    <<"O", "C", "E", "A", "N">>, <<"P", "E", "A", "R", "L">>,
    <<"Q", "U", "E", "E", "N">>, <<"R", "O", "B", "I", "N">>,
    <<"S", "T", "A", "C", "K">>, <<"T", "I", "G", "E", "R">>,
    <<"U", "N", "I", "T", "Y">>, <<"V", "I", "R", "U", "S">>,
    <<"W", "A", "T", "E", "R">>, <<"X", "E", "N", "O", "N">>,
    <<"Y", "A", "C", "H", "T">>, <<"Z", "O", "N", "E", "S">>,
    <<"B", "R", "I", "C", "K">>, <<"S", "P", "O", "O", "N">>,
    <<"P", "L", "A", "N", "K">>, <<"F", "L", "A", "M", "E">>,
    <<"S", "H", "I", "N", "E">>, <<"B", "L", "U", "E", "S">>,
    <<"C", "A", "B", "L", "E">>, <<"D", "R", "E", "A", "M">>,
    <<"F", "R", "O", "S", "T">>, <<"A", "G", "I", "L", "E">>,
    <<"B", "L", "A", "N", "K">>, <<"C", "H", "A", "M", "P">>,
    <<"D", "R", "I", "V", "E">>, <<"E", "V", "E", "R", "Y">>,
    <<"F", "A", "U", "L", "T">>, <<"G", "H", "O", "S", "T">>,
    <<"H", "A", "S", "T", "Y">>, <<"I", "N", "D", "E", "X">>,
    <<"J", "O", "L", "L", "Y">>, <<"K", "N", "E", "E", "L">>,
    <<"L", "O", "V", "E", "R">>, <<"M", "E", "R", "R", "Y">>,
    <<"N", "U", "R", "S", "E">>, <<"O", "A", "S", "I", "S">>,
    <<"P", "A", "I", "N", "T">>, <<"Q", "U", "I", "C", "K">>,
    <<"R", "O", "U", "G", "H">>, <<"S", "H", "A", "P", "E">>,
    <<"T", "R", "I", "C", "K">>, <<"U", "N", "D", "E", "R">>,
    <<"V", "I", "T", "A", "L">>, <<"W", "H", "O", "L", "E">>,
    <<"Y", "O", "U", "N", "G">>, <<"Z", "E", "B", "R", "A">>
>>

Words == {WORD_LIST[n] : n \in 1..Len(WORD_LIST)}

Positions == 1..5

\* char in word
InWord(char, word) == \E j \in Positions : word[j] = char

\* lines 52-53: the number of times each letter of the secret word is in it
SecretWordCounts(secret_word) ==
    [char \in {secret_word[j] : j \in Positions} |->
        Cardinality({j \in Positions : secret_word[j] = char})]

\* lines 56-59, the first pass: the positions where the guess has the
\* letter of the secret word are green, and each takes one off the count
\* of its letter
FirstPass(guess, secret_word) ==
    [feedback |-> [i \in Positions |->
                      IF guess[i] = secret_word[i] THEN "G" ELSE ""],
     counts |-> [char \in DOMAIN SecretWordCounts(secret_word) |->
                   SecretWordCounts(secret_word)[char]
                   - Cardinality({i \in Positions :
                                    /\ guess[i] = secret_word[i]
                                    /\ guess[i] = char})]]

\* lines 62-68, the second pass from position i on: a position that is not
\* green is yellow while the count of its letter is above 0, and takes one
\* off it; it is gray otherwise
RECURSIVE SecondPass(_, _, _, _, _)
SecondPass(guess, secret_word, feedback, counts, i) ==
    IF i > 5 THEN feedback
    ELSE IF feedback[i] # ""
    THEN SecondPass(guess, secret_word, feedback, counts, i + 1)
    ELSE IF InWord(guess[i], secret_word) /\ counts[guess[i]] > 0
    THEN SecondPass(guess, secret_word, [feedback EXCEPT ![i] = "Y"],
                    [counts EXCEPT ![guess[i]] = @ - 1], i + 1)
    ELSE SecondPass(guess, secret_word, [feedback EXCEPT ![i] = "X"],
                    counts, i + 1)

\* the feedback WordleGame.check_guess returns (lines 48-73)
CheckGuess(secret_word, guess) ==
    SecondPass(guess, secret_word, FirstPass(guess, secret_word).feedback,
               FirstPass(guess, secret_word).counts, 1)

\* WordleGame(secret_word), lines 28-31
WordleGame(secret_word) ==
    [secret_word |-> secret_word, guesses_made |-> <<>>, is_solved |-> FALSE]

NoGame == [secret_word |-> <<>>, guesses_made |-> <<>>, is_solved |-> FALSE]

\* WordleSolver(word_list), lines 85-97
WordleSolver(word_list) ==
    [all_words |-> word_list,
     possible_words |-> word_list,
     known_greens |-> [i \in Positions |-> ""],
     known_yellows |-> [i \in Positions |-> {}],
     known_grays |-> {},
     feedback_history |-> <<>>]

NoSolver == WordleSolver(<<>>)

\* lines 115-122: the letter is a known green or a known yellow of some
\* position
IsKnownPresentElsewhere(known, char) ==
    \E j \in Positions : \/ known.known_greens[j] = char
                         \/ char \in known.known_yellows[j]

\* lines 107-124, step 1 of filter_words from position i on: the positions
\* are taken from left to right, and a gray letter is looked up in what is
\* known when its position is reached
RECURSIVE UpdateKnown(_, _, _, _)
UpdateKnown(known, guess, feedback, i) ==
    IF i > 5 THEN known
    ELSE LET char_guess == guess[i]
             next ==
               CASE feedback[i] = "G" ->
                      [known EXCEPT !.known_greens[i] = char_guess]
                 [] feedback[i] = "Y" ->
                      [known EXCEPT !.known_yellows[i] = @ \cup {char_guess}]
                 [] feedback[i] = "X" ->
                      IF IsKnownPresentElsewhere(known, char_guess)
                      THEN known
                      ELSE [known EXCEPT !.known_grays = @ \cup {char_guess}]
                 [] OTHER -> known
         IN UpdateKnown(next, guess, feedback, i + 1)

\* Rule A, lines 131-135
RuleGreens(known, word) ==
    \A i \in Positions :
        known.known_greens[i] # "" => word[i] = known.known_greens[i]

\* Rule B, lines 138-147
RuleYellows(known, word) ==
    \A i \in Positions : \A yellow_char \in known.known_yellows[i] :
        /\ InWord(yellow_char, word)
        /\ word[i] # yellow_char

\* Rule C, lines 151-155
RuleGrays(known, word) ==
    \A char_gray \in known.known_grays : ~InWord(char_gray, word)

\* WordleSolver.filter_words(guess, feedback), lines 99-161
FilterWords(s, guess, feedback) ==
    LET known == UpdateKnown(s, guess, feedback, 1)
        is_valid(word) == /\ RuleGreens(known, word)
                          /\ RuleYellows(known, word)
                          /\ RuleGrays(known, word)
    IN [known EXCEPT
          !.possible_words = SelectSeq(s.possible_words, is_valid),
          !.feedback_history = Append(@, <<guess, feedback>>)]

\* no game is played
WordleIdle ==
    /\ game = NoGame
    /\ solver = NoSolver

\* no route is registered, no request is sent and no game is played in
\* the other specifications
ExtIdle ==
    /\ RegInit
    /\ CtxInit
    /\ WordleIdle

NoResponse == [id |-> "", kind |-> ""]

NoFetch == [attempt |-> 0, wait_time |-> 0, gets |-> 0, sleeps |-> <<>>]

NoRequest == [url |-> "", headers |-> {}, body |-> [py |-> "NoneType", v |-> "None"]]

NoPush == [attempt |-> 0, wait_time |-> 0, posts |-> 0, sleeps |-> <<>>,
           caller |-> "", exit_after |-> FALSE, job_id |-> "",
           result |-> [py |-> "unbound", v |-> ""],
           token |-> [py |-> "unbound", v |-> ""],
           request |-> NoRequest, sent |-> <<>>, drained |-> FALSE]

\* a local variable that has not been assigned
Unbound == [py |-> "unbound", v |-> ""]

\* the batch process does not run in Spec
BatchIdle ==
    /\ base = PyNone
    /\ given = Unbound
    /\ entry = "none"
    /\ script = <<>>
    /\ getFaults = 0
    /\ postFaults = 0
    /\ handed = 0
    /\ pc = "idle"
    /\ response = NoResponse
    /\ fetch = NoFetch
    /\ job_id = Unbound
    /\ result = Unbound
    /\ push = NoPush
    /\ iterations = 0
    /\ gets = 0
    /\ workerCalls = <<>>
    /\ posted = <<>>
    /\ delivered = <<>>
    /\ exit_status = -1

Init ==
    /\ HttpInit
    /\ BatchIdle
    /\ ExtIdle

Next ==
    \/ \E p \in Prefixes, b \in Behaviours : PostRoute(p, b)
    \/ \E id \in JobIds : WorkerFinish(id)
    \/ \E p \in Prefixes, id \in JobIds : Evict(p, id)
    \/ \E id \in JobIds : PostDeliver(id)
    \/ \E id \in JobIds : PostTimeout(id)
    \/ \E id \in JobIds : PostTimeoutRace(id)
    \/ \E p \in Prefixes, id \in JobIds : GetRoute(p, id)
    \/ \E id \in JobIds : GetLocationUnrouted(id)
    \/ GetDone

Spec == Init /\ [][Next]_vars

----------------------------------------------------------------------------
(* The job cache on its own (specification CacheSpec): its operations in   *)
(* any order, duplicate and late completion signals included.              *)

\* the outcomes a worker can end with
Outcomes == {WorkerOutcome([behaviour |-> b, x |-> "in"]) : b \in Behaviours}

\* create(job_id) for an identifier that has not been used
CreateSlot(p, id) ==
    /\ lastGet = NoGet
    /\ cache[p][id].state = "none"
    /\ cache' = [cache EXCEPT ![p] = CacheCreate(cache[p], id)]
    /\ lastGet' = NoGet
    /\ lastComplete' = NoComplete
    /\ UNCHANGED <<minted, jobs, running, handle, post, runs, batchVars, extVars>>

\* complete(job_id, outcome) on a slot in any state
CompleteSlot(p, id, o) ==
    /\ lastGet = NoGet
    /\ cache' = [cache EXCEPT ![p] = CacheComplete(cache[p], id, o)]
    /\ lastComplete' = [route |-> p, job_id |-> id, before |-> cache[p][id],
                        outcome |-> o]
    /\ lastGet' = NoGet
    /\ UNCHANGED <<minted, jobs, running, handle, post, runs, batchVars, extVars>>

\* the route whose cache CacheSpec drives
CacheRoute == "/tool"

CacheNext ==
    \/ \E id \in JobIds : CreateSlot(CacheRoute, id)
    \/ \E id \in JobIds, o \in Outcomes : CompleteSlot(CacheRoute, id, o)
    \/ \E id \in JobIds : Evict(CacheRoute, id)
    \/ \E id \in JobIds : GetRoute(CacheRoute, id)
    \/ GetDone

CacheSpec == Init /\ [][CacheNext]_vars

(***************************************************************************)
(* Part II.  examples/test-batch: server.py and ivcap.py                   *)
(***************************************************************************)

\* Number of attempt to request a new job before giving up
MAX_REQUEST_JOB_ATTEMPTS == 4

\* Number of attempt to deliver job result before giving up
MAX_DELIVER_RESULT_ATTEMPTS == 4

\* def verify_result(result, job_id, logger): three required parameters
VerifyResultParams == 3

\* verify_result(result, job_id) in wait_for_work: two arguments
VerifyResultArgs == 2

\* def push_result(result, job_id, authorization, logger) of server.py:
\* four required parameters
PushResultParams == 4

\* push_result(result, job_id) in wait_for_work: two arguments
PushResultArgs == 2

\* what a fetched response holds: a job whose worker returns ("ok") or raises
\* ("raise"), a job with in-content-type other than application/json
\* ("bad_ct"), a body that is not JSON ("not_json"), the sentinel ("done")
JobKinds == {"ok", "raise", "bad_ct", "not_json", "done"}

\* the dispatcher hands out nothing after the sentinel
Scripts ==
    UNION {{sq \in [1..n -> JobKinds] : \A i \in 1..(n - 1) : sq[i] # "done"}
           : n \in 1..MaxScript}

\* the "id" of the k-th job handed out
BatchId(k) == "b" \o ToString(k)

BatchIds == {BatchId(k) : k \in 1..MaxScript}

\* IVCAP_BASE_URL
BaseUrl == "http://ivcap.local"

\* what os.getenv("IVCAP_BASE_URL") can give: None when the variable is not
\* set, the empty string, the dispatcher's URL
BaseValues == {PyNone, PyStr(""), PyStr(BaseUrl)}

\* get_ivcap_url(): None for the empty string and urlparse(base) otherwise;
\* urlparse(None) is a ParseResultBytes of empty components, not None
GetIvcapUrl(b) ==
    IF PyEq(b, PyStr("")) THEN PyNone
    ELSE IF b = PyNone THEN [py |-> "ParseResultBytes", v |-> ""]
    ELSE [py |-> "ParseResult", v |-> b.v]

\* urlunparse(ivcap_url._replace(path=path)) with path a str: components of
\* str and of bytes cannot be mixed
UrlUnparse(ivcap_url, path) ==
    IF ivcap_url.py = "ParseResultBytes"
    THEN [raised |-> "TypeError", url |-> ""]
    ELSE [raised |-> "", url |-> ivcap_url.v \o path]

----------------------------------------------------------------------------
(* Result envelopes of the batch example *)

\* IvcapResult(content=.., content_type=.., raw=..): isError keeps its default
IvcapResultRaw(content, content_type, raw) ==
    [py |-> "IvcapResult", content |-> content, content_type |-> content_type,
     isError |-> FALSE, raw |-> raw]

\* IvcapResult(content=.., content_type=..): raw keeps its default None
IvcapResult(content, content_type) ==
    IvcapResultRaw(content, content_type, PyNone)

\* BinaryResult(content_type=.., content=..)
BinaryResult(content_type, content) ==
    [py |-> "BinaryResult", content |-> content, content_type |-> content_type]

\* isinstance(r, BinaryResult): IvcapResult is a subclass of BinaryResult
IsBinaryResult(r) == r.py \in {"BinaryResult", "IvcapResult"}

PyBytes(b) == [py |-> "bytes", v |-> b]

IsIvcapResult(r) == r.py = "IvcapResult"

\* model_dump_json(by_alias=True) of an ExecutionError
ErrorJson(e) ==
    [py |-> "str", json |-> "ExecutionError",
     schema |-> "urn:ivcap:schema.ai-tool.error.1",
     error |-> e.error, type |-> e.type]

\* model_dump_json(by_alias=True) of a worker's output model: a JSON text
\* whose keys are the aliases of the model's fields
ModelJson(m) == [py |-> "str", json |-> "object", keys |-> "alias", v |-> m.v]

\* a pydantic model holding a value that model_dump_json cannot serialise
UnserialisableModel == [py |-> "model", v |-> "unserialisable"]

\* model_dump_json raises on the model
ModelDumpFails(m) == m = UnserialisableModel

\* json.dumps accepts dict, list, str, int, float, bool and None
JsonSerialisable(r) == r.py \in {"dict", "list", "int", "NoneType"}

\* json.dumps(result) of line 218: a JSON text holding the value's content
JsonDumps(r) == [py |-> "str", json |-> r.py, keys |-> "name", v |-> r.v]

\* lines 216-227: what the closing branch of verify_result assigns to its
\* local variable result
ClosingBranch(r) ==
    IF JsonSerialisable(r)
    THEN IvcapResult(JsonDumps(r), "application/json")
    ELSE ExecutionError("TypeError", "cannot json serialise result")

\* str(b) of a bool
StrOfBool(b) == PyStr(IF b THEN "True" ELSE "False")

\* Python truthiness of None and of str
Truthy(x) == x # PyNone /\ x # PyStr("")

\* VerifyResult without its first isinstance check: an ExecutionError, which
\* is a pydantic model, is serialised like any other model
MutVerifyResult(r) ==
    IF IsExecutionError(r)
    THEN IvcapResultRaw(ErrorJson(r), "application/json", r)
    ELSE IF r.py = "model"
    THEN IF ModelDumpFails(r)
         THEN ExecutionError("PydanticSerializationError",
                             "cannot json serialise pydantic isntance")
         ELSE IvcapResultRaw(ModelJson(r), "application/json", r)
    ELSE IF IsBinaryResult(r) THEN IvcapResult(r.content, r.content_type)
    ELSE IF r.py = "str" THEN IvcapResultRaw(r, "text/plain", r)
    ELSE IF r.py \in {"bytes", "BinaryIO"}
    THEN IvcapResultRaw(r, "application/octet-stream", r)
    ELSE PyNone

\* verify_result(result, job_id, logger), called with all its arguments.
\* The closing branch (lines 216-227) assigns ClosingBranch(r) to a local
\* variable and ends without a return statement: the call returns None.
VerifyResult(r) ==
    IF IsExecutionError(r) THEN r
    ELSE IF r.py = "model"
    THEN IF ModelDumpFails(r)
         THEN ExecutionError("PydanticSerializationError",
                             "cannot json serialise pydantic isntance")
         ELSE IvcapResultRaw(ModelJson(r), "application/json", r)
    ELSE IF IsBinaryResult(r) THEN IvcapResult(r.content, r.content_type)
    ELSE IF r.py = "str" THEN IvcapResultRaw(r, "text/plain", r)
    ELSE IF r.py \in {"bytes", "BinaryIO"}
    THEN IvcapResultRaw(r, "application/octet-stream", r)
    ELSE PyNone

\* values a worker can return, handed to verify_result.  An open file is an
\* io.BufferedReader, which is no instance of typing.BinaryIO
WorkerValues ==
    {ExecutionError("RuntimeError", "failed"),
     OutputModel("out"),
     UnserialisableModel,
     BinaryResult("image/png", PyBytes("png")),
     IvcapResult(PyStr("text"), "text/plain"),
     PyStr("text"),
     PyStr(""),
     PyBytes("raw"),
     [py |-> "BinaryIO", v |-> "stream"],
     [py |-> "BufferedReader", v |-> "file"],
     [py |-> "dict", v |-> "a: 1"],
     [py |-> "list", v |-> "1, 2"],
     [py |-> "int", v |-> "3"],
     [py |-> "set", v |-> "1, 2"],
     [py |-> "object", v |-> "obj"],
     PyNone}

\* a call whose argument count differs from the required parameters raises
\* TypeError before the body runs
ArityError(args, params) == args # params

----------------------------------------------------------------------------
(* fetch_job *)

FetchStart == [attempt |-> 0, wait_time |-> 1, gets |-> 0, sleeps |-> <<>>]

\* wait_time *= 2 (server.py:75)
FetchNextWait(w) == w * 2

\* OuterHandlerCatches with a handler for BaseException
MutOuterHandlerCatches(exc) == TRUE

\* the handlers of wait_for_work (lines 58-61) catch Exception and its
\* subclasses; SystemExit is not one of them
OuterHandlerCatches(exc) == exc # "SystemExit"

----------------------------------------------------------------------------
(* do_job and one pass of the while loop *)

\* do_job(job, worker_fn, input_model, output_model, logger)
DoJob(job) ==
    IF job.kind = "bad_ct"
    THEN [raised |-> "Exception", value |-> PyNone, invoked |-> FALSE]
    ELSE IF job.kind = "raise"
    THEN [raised |-> "", invoked |-> TRUE,
          value |-> ExecutionError("RuntimeError", "failed on " \o job.id)]
    ELSE [raised |-> "", invoked |-> TRUE, value |-> OutputModel(job.id)]

\* lines 38-46, the body of the inner try: the exception it ends with (""
\* for none) and the locals job_id and result as it leaves them
TryBlock(resp, jid, res) ==
    IF resp.kind = "not_json"
    THEN [raised |-> "JSONDecodeError", job_id |-> jid, result |-> res,
          invoked |-> FALSE]
    ELSE IF resp.kind = "done"
    THEN [raised |-> "SystemExit", job_id |-> jid, result |-> res,
          invoked |-> FALSE]
    ELSE LET d == DoJob(resp) IN
         IF d.raised # ""
         THEN [raised |-> d.raised, job_id |-> PyStr(resp.id), result |-> res,
               invoked |-> d.invoked]
         ELSE IF ArityError(VerifyResultArgs, VerifyResultParams)
         THEN [raised |-> "TypeError", job_id |-> PyStr(resp.id),
               result |-> d.value, invoked |-> d.invoked]
         ELSE [raised |-> "", job_id |-> PyStr(resp.id),
               result |-> VerifyResult(d.value), invoked |-> d.invoked]

\* lines 47-52: the except Exception clause of the inner try
HandlerResult(t) ==
    IF t.raised \notin {"", "SystemExit"}
    THEN ExecutionError(t.raised, "str(e)")
    ELSE t.result

----------------------------------------------------------------------------
(* push_result *)

\* PushNextWait growing linearly instead of doubling
MutPushNextWait(w) == w + 1

\* wait_time *= 2 (ivcap.py:95, server.py:286)
PushNextWait(w) == w * 2

\* the Authorization header: "if auth_token:" in ivcap.py,
\* "if authorization is not None or authorization != ''" in server.py
AuthHeader(variant, token) ==
    IF variant = "ivcap.py"
    THEN IF Truthy(token) THEN {<<"Authorization", token>>} ELSE {}
    ELSE IF token # PyNone \/ token # PyStr("")
         THEN {<<"Authorization", token>>}
         ELSE {}

\* PushRequest without the assignment is_error = True of the else branch
MutPushRequest(variant, r, jid, token) ==
    LET norm == IF IsExecutionError(r) \/ IsIvcapResult(r)
                THEN r
                ELSE ExecutionError("InternalError", "expected result")
        is_error == FALSE
    IN [url |-> BaseUrl \o "/results/" \o jid,
        headers |-> {<<"Content-Type",
                       PyStr(IF IsIvcapResult(norm) THEN norm.content_type
                                                   ELSE "application/json")>>,
                     <<"Is-Error", StrOfBool(is_error)>>}
                    \cup AuthHeader(variant, token),
        body |-> IF IsIvcapResult(norm) THEN norm.content ELSE ErrorJson(norm)]

\* PushRequest without the replacement of a value that is no envelope
\* (ivcap.py:49-55, server.py:240-246): the value is sent as it is
MutPushRequestRaw(variant, r, jid, token) ==
    LET is_error == ~IsIvcapResult(r)
    IN [url |-> BaseUrl \o "/results/" \o jid,
        headers |-> {<<"Content-Type",
                       PyStr(IF is_error THEN "application/json"
                                         ELSE r.content_type)>>,
                     <<"Is-Error", StrOfBool(is_error)>>}
                    \cup AuthHeader(variant, token),
        body |-> IF IsIvcapResult(r) THEN r.content
                 ELSE IF IsExecutionError(r) THEN ErrorJson(r)
                 ELSE r]

\* the request push_result builds before its retry loop
PushRequest(variant, r, jid, token) ==
    LET norm == IF IsExecutionError(r) \/ IsIvcapResult(r)
                THEN r
                ELSE ExecutionError("InternalError", "expected result")
        is_error == ~IsIvcapResult(norm)
    IN [url |-> BaseUrl \o "/results/" \o jid,
        headers |-> {<<"Content-Type",
                       PyStr(IF is_error THEN "application/json"
                                         ELSE norm.content_type)>>,
                     <<"Is-Error", StrOfBool(is_error)>>}
                    \cup AuthHeader(variant, token),
        body |-> IF is_error THEN ErrorJson(norm) ELSE norm.content]

PushStart(variant, r, jid, token, caller, exit_after) ==
    [attempt |-> 0, wait_time |-> 1, posts |-> 0, sleeps |-> <<>>,
     caller |-> caller, exit_after |-> exit_after, job_id |-> jid,
     result |-> r, token |-> token,
     request |-> PushRequest(variant, r, jid, token),
     sent |-> <<>>, drained |-> FALSE]

\* an open file (or another byte stream) handed over as content
IsStream(x) == x.py \in {"BufferedReader", "BinaryIO"}

\* the bytes an open stream holds from its start
StreamBytes(x) == PyBytes("bytes of " \o x.v)

\* what httpx.post(url=url, headers=headers, data=content) puts on the
\* wire: str and bytes as they are; a stream is read from its current
\* position, which is its end once it has been read
Transmitted(req, drained) ==
    [url |-> req.url, headers |-> req.headers,
     body |-> IF IsStream(req.body)
              THEN IF drained THEN PyBytes("") ELSE StreamBytes(req.body)
              ELSE req.body]

\* values handed to push_result when it is called directly
PushInputs ==
    {IvcapResult(PyStr("text"), "text/plain"),
     ExecutionError("RuntimeError", "failed"),
     PyNone,
     PyStr("raw text"),
     OutputModel("out"),
     IvcapResultRaw([py |-> "BufferedReader", v |-> "file"],
                    "application/octet-stream", PyNone)}

Tokens == {PyNone, PyStr(""), PyStr("Bearer t")}

----------------------------------------------------------------------------
(* Part II actions *)

\* the batch example started with IVCAP_BASE_URL giving one of bases
BatchInitIn(bases) ==
    /\ base \in bases
    /\ given = Unbound
    /\ entry \in {"wait_for_work", "push_result", "verify_result"}
    /\ script \in (IF entry = "wait_for_work" THEN Scripts ELSE {<<>>})
    /\ getFaults \in (IF entry = "wait_for_work" THEN 0..MaxFaults ELSE {0})
    /\ postFaults \in (IF entry = "verify_result" THEN {0} ELSE 0..MaxFaults)
    /\ handed = 0
    /\ pc = "start"
    /\ response = NoResponse
    /\ fetch = NoFetch
    /\ job_id = Unbound
    /\ result = Unbound
    /\ push = NoPush
    /\ iterations = 0
    /\ gets = 0
    /\ workerCalls = [j \in BatchIds |-> 0]
    /\ posted = [j \in BatchIds |-> 0]
    /\ delivered = [j \in BatchIds |-> 0]
    /\ exit_status = -1

\* the dispatcher's URL is configured
BatchInit == BatchInitIn({PyStr(BaseUrl)})

\* wait_for_work, lines 26-33: without a URL it returns (line 29); a
\* TypeError of line 30 is raised outside the try statement and leaves
\* wait_for_work; otherwise fetch_job is called
StartWork ==
    /\ pc = "start"
    /\ entry = "wait_for_work"
    /\ LET ivcap_url == GetIvcapUrl(base) IN
       IF ivcap_url = PyNone
       THEN pc' = "returned" /\ fetch' = fetch
       ELSE IF UrlUnparse(ivcap_url, "/next_job").raised # ""
       THEN pc' = "raised" /\ fetch' = fetch
       ELSE pc' = "fetch" /\ fetch' = FetchStart
    /\ UNCHANGED <<base, given, entry, script, getFaults, postFaults, handed, response,
                   job_id, result, push, iterations, gets, workerCalls,
                   posted, delivered, exit_status, httpVars, extVars>>

\* fetch_job, lines 66-75: one pass of its loop.  The GET succeeds once the
\* endpoint is through its failures and the dispatcher has a job left;
\* line 34 then finds the status good and the while loop is entered.
FetchAttempt ==
    /\ pc = "fetch"
    /\ fetch.attempt < MAX_REQUEST_JOB_ATTEMPTS
    /\ gets' = gets + 1
    /\ IF fetch.attempt >= getFaults /\ handed < Len(script)
       THEN /\ response' = [id |-> BatchId(handed + 1), kind |-> script[handed + 1]]
            /\ handed' = handed + 1
            /\ fetch' = [fetch EXCEPT !.gets = @ + 1]
            /\ pc' = "loop"
       ELSE /\ fetch' = [fetch EXCEPT !.gets = @ + 1,
                                      !.attempt = @ + 1,
                                      !.sleeps = Append(@, fetch.wait_time),
                                      !.wait_time = FetchNextWait(@)]
            /\ UNCHANGED <<response, handed, pc>>
    /\ UNCHANGED <<base, given, entry, script, getFaults, postFaults, job_id, result, push,
                   iterations, workerCalls, posted, delivered, exit_status,
                   httpVars, extVars>>

\* fetch_job, lines 76-77: sys.exit(255) raises SystemExit through the
\* handlers of wait_for_work
FetchGiveUp ==
    /\ pc = "fetch"
    /\ fetch.attempt >= MAX_REQUEST_JOB_ATTEMPTS
    /\ IF OuterHandlerCatches("SystemExit")
       THEN pc' = "returned" /\ exit_status' = exit_status
       ELSE pc' = "exited" /\ exit_status' = 255
    /\ UNCHANGED <<base, given, entry, script, getFaults, postFaults, handed, response,
                   fetch, job_id, result, push, iterations, gets, workerCalls,
                   posted, delivered, httpVars, extVars>>

\* wait_for_work, lines 36-56: one pass of the while loop up to the call of
\* push_result in the finally clause.  The finally clause reads job_id
\* (line 55) and calls push_result with two arguments (line 56); an
\* exception raised there replaces the one pending and is caught at line 60,
\* after which wait_for_work returns.
LoopBody ==
    /\ pc = "loop"
    /\ iterations < MaxIterations
    /\ LET t == TryBlock(response, job_id, result)
           r == HandlerResult(t)
       IN /\ job_id' = t.job_id
          /\ result' = r
          /\ workerCalls' = IF t.invoked
                            THEN [workerCalls EXCEPT ![response.id] = @ + 1]
                            ELSE workerCalls
          /\ IF t.job_id = Unbound \/ ArityError(PushResultArgs, PushResultParams)
             THEN /\ pc' = "returned"
                  /\ push' = push
             ELSE /\ pc' = "push"
                  /\ push' = PushStart("server.py", r, t.job_id.v, PyNone,
                                       "loop", t.raised = "SystemExit")
    /\ iterations' = iterations + 1
    /\ UNCHANGED <<base, given, entry, script, getFaults, postFaults, handed, response,
                   fetch, gets, posted, delivered, exit_status, httpVars, extVars>>

\* push_result(result, job_id, token) called by a user of the library:
\* without a URL it returns (ivcap.py:41-43, server.py:232-234), a TypeError
\* of the next line leaves it, otherwise the request is built and the retry
\* loop entered
CallPushResult(variant, r, token) ==
    /\ pc = "start"
    /\ entry = "push_result"
    /\ LET ivcap_url == GetIvcapUrl(base) IN
       IF ivcap_url = PyNone
       THEN pc' = "returned" /\ push' = push
       ELSE IF UrlUnparse(ivcap_url, "/results/" \o BatchId(1)).raised # ""
       THEN pc' = "raised" /\ push' = push
       ELSE /\ pc' = "push"
            /\ push' = PushStart(variant, r, BatchId(1), token, "direct", FALSE)
    /\ UNCHANGED <<base, given, entry, script, getFaults, postFaults, handed, response,
                   fetch, job_id, result, iterations, gets, workerCalls,
                   posted, delivered, exit_status, httpVars, extVars>>

\* verify_result(result, job_id, logger) called by a user of the library
CallVerifyResult(v) ==
    /\ pc = "start"
    /\ entry = "verify_result"
    /\ given' = v
    /\ result' = VerifyResult(v)
    /\ pc' = "returned"
    /\ UNCHANGED <<base, entry, script, getFaults, postFaults, handed, response,
                   fetch, job_id, push, iterations, gets, workerCalls,
                   posted, delivered, exit_status, httpVars, extVars>>

\* where control goes when push_result returns: to its direct caller, or
\* back into wait_for_work, where a pending SystemExit(0) ends the process
\* and the while loop otherwise starts its next pass
AfterPush ==
    IF push.caller = "loop"
    THEN IF push.exit_after
         THEN pc' = "exited" /\ exit_status' = 0
         ELSE pc' = "loop" /\ exit_status' = exit_status
    ELSE pc' = "returned" /\ exit_status' = exit_status

\* push_result: one pass of its retry loop (ivcap.py:82-95, server.py:273-286).
\* A POST that fails has either failed before the body was read (no
\* connection) or after it was sent (error status): a stream is left
\* untouched in the first case and is at its end in the second.
PushAttempt ==
    /\ pc = "push"
    /\ push.attempt < MAX_DELIVER_RESULT_ATTEMPTS
    /\ posted' = [posted EXCEPT ![push.job_id] = @ + 1]
    /\ IF push.attempt >= postFaults
       THEN /\ delivered' = [delivered EXCEPT ![push.job_id] = @ + 1]
            /\ push' = [push EXCEPT
                           !.posts = @ + 1,
                           !.sent = Append(@, Transmitted(push.request, push.drained)),
                           !.drained = IsStream(push.request.body)]
            /\ AfterPush
       ELSE /\ \E body_read \in (IF IsStream(push.request.body)
                                  THEN BOOLEAN ELSE {FALSE}) :
                 push' = [push EXCEPT
                            !.posts = @ + 1,
                            !.attempt = @ + 1,
                            !.sleeps = Append(@, push.wait_time),
                            !.wait_time = PushNextWait(@),
                            !.sent = IF body_read \/ ~IsStream(push.request.body)
                                     THEN Append(@, Transmitted(push.request, push.drained))
                                     ELSE @,
                            !.drained = @ \/ body_read]
            /\ UNCHANGED <<delivered, pc, exit_status>>
    /\ UNCHANGED <<base, given, entry, script, getFaults, postFaults, handed, response,
                   fetch, job_id, result, iterations, gets, workerCalls,
                   httpVars, extVars>>

\* push_result: the loop ends without a delivery (ivcap.py:97, server.py:288)
PushGiveUp ==
    /\ pc = "push"
    /\ push.attempt >= MAX_DELIVER_RESULT_ATTEMPTS
    /\ AfterPush
    /\ UNCHANGED <<base, given, entry, script, getFaults, postFaults, handed, response,
                   fetch, job_id, result, push, iterations, gets, workerCalls,
                   posted, delivered, httpVars, extVars>>

BatchNext ==
    \/ StartWork
    \/ FetchAttempt
    \/ FetchGiveUp
    \/ LoopBody
    \/ \E variant \in {"ivcap.py", "server.py"}, r \in PushInputs, token \in Tokens :
          CallPushResult(variant, r, token)
    \/ \E v \in WorkerValues : CallVerifyResult(v)
    \/ PushAttempt
    \/ PushGiveUp

\* no request reaches the HTTP adapter in BatchSpec
BatchSpecInit ==
    /\ HttpInit
    /\ BatchInit
    /\ ExtIdle

BatchSpec == BatchSpecInit /\ [][BatchNext]_vars

\* the batch example in any environment: IVCAP_BASE_URL not set, empty, or
\* the dispatcher's URL (specification EnvSpec)
EnvSpecInit ==
    /\ HttpInit
    /\ BatchInitIn(BaseValues)
    /\ ExtIdle

EnvSpec == EnvSpecInit /\ [][BatchNext]_vars

----------------------------------------------------------------------------
(* Part III actions (specification RegSpec) *)

\* add_tool_api_route(app, p, worker_fn) or
\* add_tool_api_route(app, p, worker_fn, opts=ToolOptions(..)): lines 75-86.
\* The three routes close over the object opts is bound to.
AddToolApiRoute(p, call) ==
    /\ routeOpts[p] = ""
    /\ LET obj == IF call.passed THEN "opts:" \o p ELSE "default"
           opts == IF call.passed THEN call.opts ELSE heap["default"]
       IN /\ heap' = [heap EXCEPT ![obj] = FillDefaults(opts, p)]
          /\ routeOpts' = [routeOpts EXCEPT ![p] = obj]
    /\ toolDef' = NoToolDef
    /\ UNCHANGED <<ambient, wire, game, solver, httpVars, batchVars>>

\* GET {path_prefix}: create_tool_definition(worker_fn, name=opts.name)
\* (lines 170-171), opts.name read when the request is handled
GetToolDef(p) ==
    /\ routeOpts[p] # ""
    /\ toolDef' = [route |-> p, name |-> heap[routeOpts[p]].name]
    /\ UNCHANGED <<heap, routeOpts, ambient, wire, game, solver, httpVars,
                   batchVars>>

RegSpecInit ==
    /\ HttpInit
    /\ BatchIdle
    /\ RegInit
    /\ CtxInit
    /\ WordleIdle

RegNext ==
    \/ \E p \in RegPrefixes, call \in Calls : AddToolApiRoute(p, call)
    \/ \E p \in RegPrefixes : GetToolDef(p)

RegSpec == RegSpecInit /\ [][RegNext]_vars

----------------------------------------------------------------------------
(* Part IV actions (specification CtxSpec) *)

\* the Executor starts or ends a job: the ambient job id and token change
SetAmbient(amb) ==
    /\ ambient # amb
    /\ ambient' = amb
    /\ wire' = NoWire
    /\ UNCHANGED <<heap, routeOpts, toolDef, game, solver, httpVars, batchVars>>

\* the patched Session.send (lines 56-62) or httpx.Client.send (lines
\* 105-109): _modify_headers(request.headers, request.url), then the
\* original send
Send(client, u, headers) ==
    /\ wire' = [client |-> client, to |-> u, before |-> headers,
                headers |-> ModifyHeaders(headers, RequestUrl(client, u), ambient),
                job_id |-> ambient.job_id, auth |-> ambient.auth]
    /\ UNCHANGED <<ambient, heap, routeOpts, toolDef, game, solver, httpVars,
                   batchVars>>

CtxSpecInit ==
    /\ HttpInit
    /\ BatchIdle
    /\ RegInit
    /\ CtxInit
    /\ WordleIdle

CtxNext ==
    \/ \E amb \in Ambients : SetAmbient(amb)
    \/ \E client \in {"requests", "httpx"}, u \in Urls, headers \in HeaderSets :
          Send(client, u, headers)

CtxSpec == CtxSpecInit /\ [][CtxNext]_vars

----------------------------------------------------------------------------
(* Part V actions (specification WordleSpec) *)

\* play_wordle_with_solver(secret_word, props), lines 204-205: a game for
\* the secret word and a solver over WORD_LIST
PlayWordle(secret_word) ==
    /\ game = NoGame
    /\ game' = WordleGame(secret_word)
    /\ solver' = WordleSolver(WORD_LIST)
    /\ UNCHANGED <<heap, routeOpts, toolDef, ambient, wire, httpVars,
                   batchVars>>

\* feedback = game.check_guess(guess); solver.filter_words(guess, feedback)
\* (lines 227-230), for any word of WORD_LIST as the guess
Guess(guess) ==
    /\ game # NoGame
    /\ Len(solver.feedback_history) < MaxGuesses
    /\ LET feedback == CheckGuess(game.secret_word, guess)
       IN solver' = FilterWords(solver, guess, feedback)
    /\ game' = [game EXCEPT
                  !.guesses_made = Append(@, guess),
                  !.is_solved = @ \/ guess = game.secret_word]
    /\ UNCHANGED <<heap, routeOpts, toolDef, ambient, wire, httpVars,
                   batchVars>>

WordleSpecInit ==
    /\ HttpInit
    /\ BatchIdle
    /\ RegInit
    /\ CtxInit
    /\ WordleIdle

WordleNext ==
    \/ \E secret_word \in Words : PlayWordle(secret_word)
    \/ \E guess \in Words : Guess(guess)

WordleSpec == WordleSpecInit /\ [][WordleNext]_vars

----------------------------------------------------------------------------
(* Properties of Part I *)

\* C1: every POST whose bounded wait elapsed with no outcome in the queue is
\* answered 204 No Content, with Location = "<path_prefix>/<job_id>" for the
\* job id minted by that very request and Retry-Later = opts.refresh_interval
\* of its route; no other header and no error status is produced.
C1_TimeoutAnswer ==
    \A id \in JobIds :
        post[id].via = "timeout" =>
            /\ post[id].status = 204
            /\ post[id].headers =
                 {<<"Location", jobs[id].route \o "/" \o id>>,
                  <<"Retry-Later",
                    ToString(RouteOpts(jobs[id].route).refresh_interval)>>}

\* a POST on /tool has timed out while its worker was still running
C1_Witness ==
    \E id \in JobIds :
        /\ post[id].via = "timeout"
        /\ jobs[id].route = "/tool"
        /\ id \in running

\* C2: a GET on the job path issued while the slot is pending repeats the
\* "not yet done" answer: 204 with the Location and Retry-Later headers.
C2_PendingGetRepeats204 ==
    lastGet.slot = "pending" =>
        /\ lastGet.resp.status = 204
        /\ lastGet.resp.headers =
             {<<"Location", lastGet.route \o "/" \o lastGet.job_id>>,
              <<"Retry-Later",
                ToString(RouteOpts(lastGet.route).refresh_interval)>>}

\* C3: when the worker of a job raised, neither the POST that waited for it
\* nor a GET on its ready slot answers with an unhandled failure or a 5xx:
\* the answer is 200 (error envelope) or the mapped 400.
C3_RaisingWorkerNever5xx ==
    /\ \A id \in JobIds :
         (post[id].via = "deliver" /\ jobs[id].input.behaviour # "ok")
            => post[id].status \in {200, 400}
    /\ (lastGet.slot = "ready" /\ jobs[lastGet.job_id].input.behaviour # "ok")
            => lastGet.resp.status \in {200, 400}

----------------------------------------------------------------------------
(* Properties of Part II *)

\* the batch loop is past the job it last assigned to job_id, and is
\* neither ended by the handlers of wait_for_work nor about to process the
\* same response again
LoopWentOn ==
    /\ pc # "returned"
    /\ ~(pc = "loop" /\ response.id = job_id.v)

\* C4: when the dispatcher hands out three ordinary jobs and then the "done"
\* sentinel (and no request fails), wait_for_work ends having invoked the
\* worker once per job, pushed one result per job, sent four GETs in all,
\* and having exited the process with status 0.
C4_ThreeJobsThenDone ==
    (/\ entry = "wait_for_work"
     /\ script = <<"ok", "ok", "ok", "done">>
     /\ getFaults = 0
     /\ postFaults = 0
     /\ pc \in {"exited", "returned"})
    => /\ \A k \in 1..3 : /\ workerCalls[BatchId(k)] = 1
                          /\ posted[BatchId(k)] = 1
                          /\ delivered[BatchId(k)] = 1
       /\ workerCalls[BatchId(4)] = 0
       /\ posted[BatchId(4)] = 0
       /\ gets = 4
       /\ pc = "exited"
       /\ exit_status = 0

\* C5: the batch loop is the sequence fetch, decode, invoke, normalize, push,
\* repeated: a worker invocation is for a job that was fetched, no job is
\* invoked or delivered twice, and once the loop is no longer inside
\* push_result every invoked job has had its result POSTed.
C5_FetchInvokePushSequence ==
    entry = "wait_for_work" =>
        \A k \in 1..MaxScript :
            /\ workerCalls[BatchId(k)] <= 1
            /\ delivered[BatchId(k)] <= 1
            /\ workerCalls[BatchId(k)] > 0 => k <= handed
            /\ (workerCalls[BatchId(k)] > 0 /\ pc # "push")
                   => posted[BatchId(k)] >= 1

\* C6: while no fetch has succeeded, fetch_job has sent at most 4 GETs, and
\* wait_for_work can only be fetching or have exited the process; it exits
\* after exactly 4 GETs with status 255, and its handlers never turn that
\* exit into a normal return.
C6_FetchExhaustionExits255 ==
    (entry = "wait_for_work" /\ handed = 0) =>
        /\ gets <= 4
        /\ pc \in {"start", "fetch", "exited"}
        /\ pc = "exited" => (exit_status = 255 /\ gets = 4)

\* every GET failed and the process has exited with status 255
C6_Witness ==
    /\ entry = "wait_for_work"
    /\ getFaults >= 4
    /\ pc = "exited"
    /\ exit_status = 255
    /\ gets = 4
    /\ fetch.attempt = 4

\* C7: when every POST for a job fails, push_result returns normally after
\* 4 POSTs, and the batch loop goes on to the next job.
C7_PushExhaustionContinues ==
    /\ (pc # "push" /\ push.job_id # "" /\ delivered[push.job_id] = 0)
           => push.posts = 4
    /\ (entry = "wait_for_work" /\ postFaults >= 4 /\ job_id # Unbound
        /\ pc # "push")
           => (posted[job_id.v] = 4 /\ LoopWentOn)

\* C8: when the POST for a job fails three times and then succeeds, exactly
\* 4 POSTs are sent with waits of 1, 2 and 4 seconds between them, nothing
\* follows the successful POST, and the batch loop goes on to the next job.
C8_BackoffScenario ==
    /\ (pc # "push" /\ push.attempt = 3 /\ push.job_id # ""
        /\ delivered[push.job_id] >= 1)
           => (push.posts = 4 /\ push.sleeps = <<1, 2, 4>>)
    /\ (entry = "wait_for_work" /\ postFaults = 3 /\ job_id # Unbound
        /\ pc # "push")
           => (/\ posted[job_id.v] = 4
               /\ delivered[job_id.v] = 1
               /\ LoopWentOn)

\* the waits after an operation's first n failed attempts
Backoff(n) == [k \in 1..n |-> 2 ^ (k - 1)]

\* C9: fetch_job and push_result retry alike: at most 4 attempts per call,
\* the wait after the k-th failed attempt is 2^(k-1) seconds, and the first
\* successful attempt ends the call with no further request or wait.
C9_SameRetryPolicy ==
    /\ fetch.gets <= 4
    /\ fetch.sleeps = Backoff(fetch.attempt)
    /\ fetch.gets \in {fetch.attempt, fetch.attempt + 1}
    /\ fetch.gets = fetch.attempt + 1 => pc # "fetch"
    /\ push.posts <= 4
    /\ push.sleeps = Backoff(push.attempt)
    /\ push.posts \in {push.attempt, push.attempt + 1}
    /\ push.posts = push.attempt + 1 => pc # "push"

\* push_result has returned after three failed POSTs and a successful fourth
C9_Witness ==
    /\ pc = "returned"
    /\ push.attempt = 3
    /\ push.posts = 4
    /\ delivered[push.job_id] = 1

\* C10: once the fetched job is the "done" sentinel, the loop ends with exit
\* status 0; the worker is not invoked for it, nothing is POSTed for it, and
\* no earlier result is delivered a second time.
C10_SentinelExitsZero ==
    (entry = "wait_for_work" /\ response.kind = "done" /\ pc # "loop") =>
        /\ pc = "exited"
        /\ exit_status = 0
        /\ workerCalls[response.id] = 0
        /\ posted[response.id] = 0
        /\ \A j \in BatchIds : delivered[j] <= 1

\* C11: when a fetched job that is not the sentinel cannot be decoded (body
\* not JSON, in-content-type other than application/json), an
\* ExecutionError is POSTed for that job with Is-Error set, and
\* wait_for_work goes on with the next job instead of ending.
C11_DecodeFailurePushesError ==
    (/\ entry = "wait_for_work"
     /\ response.kind \in {"bad_ct", "not_json"}
     /\ iterations >= 1
     /\ pc # "push")
    => /\ posted[response.id] >= 1
       /\ push.job_id = response.id
       /\ <<"Is-Error", StrOfBool(TRUE)>> \in push.request.headers
       /\ push.request.body.json = "ExecutionError"
       /\ LoopWentOn

\* C12: when the worker of a batch job raises, the result of that pass is
\* the ExecutionError built by do_job (type = the class name of the failure,
\* error = its string form), that error is POSTed for the job with Is-Error
\* set, and the batch loop is not ended by the failure.
C12_WorkerFailurePushed ==
    (/\ entry = "wait_for_work"
     /\ response.kind = "raise"
     /\ iterations >= 1
     /\ pc # "push")
    => /\ workerCalls[response.id] = 1
       /\ result = DoJob(response).value
       /\ result.type = PyStr("RuntimeError")
       /\ posted[response.id] >= 1
       /\ <<"Is-Error", StrOfBool(TRUE)>> \in push.request.headers
       /\ push.request.body = ErrorJson(DoJob(response).value)
       /\ LoopWentOn

----------------------------------------------------------------------------
(* Further properties of Part I *)

\* C13: the timeout of the POST's wait does not abort the worker: for a job
\* whose POST answered 204, the one worker invocation started for it ends
\* with its outcome stored in the slot, and a GET on the job id made after
\* that, while the slot is retained, answers with that outcome.
C13_TimeoutDoesNotAbortWorker ==
    \A id \in JobIds :
        LET p == jobs[id].route
            o == WorkerOutcome(jobs[id].input) IN
        post[id].via = "timeout" =>
            /\ runs[id] = 1
            /\ (id \notin running /\ cache[p][id].state # "expired")
                  => /\ cache[p][id] = [state |-> "ready", outcome |-> o]
                     /\ (lastGet.route = p /\ lastGet.job_id = id)
                           => /\ lastGet.resp.status = 200
                              /\ lastGet.resp.body = o

\* C14: on a route with max_wait_time = 0 the POST of a job whose worker
\* returns its output is answered 204 with Location and Retry-Later, and a
\* GET on exactly the path of that Location header, made after the worker
\* has finished and while the slot is retained, answers 200 with the
\* worker's output.
C14_PollScenario ==
    \A id \in JobIds :
        LET p == jobs[id].route
            o == WorkerOutcome(jobs[id].input) IN
        (/\ post[id] \notin {NotPosted, Waiting}
         /\ RouteOpts(p).max_wait_time = 0
         /\ jobs[id].input.behaviour = "ok")
        => /\ post[id].via = "timeout"
           /\ post[id].status = 204
           /\ HeaderValue(post[id], "Location") # ""
           /\ HeaderValue(post[id], "Retry-Later") # ""
           /\ (/\ id \notin running
               /\ cache[p][id].state = "ready"
               /\ lastGet.path = HeaderValue(post[id], "Location"))
              => /\ lastGet.resp.status = 200
                 /\ lastGet.resp.body = o

\* C15: a POST that received its job's outcome within max_wait_time is not
\* answered 204: it is answered 200 with the outcome of the job it created
\* itself as the body.
C15_DeliveredOwnOutcome ==
    \A id \in JobIds :
        post[id].via = "deliver" =>
            /\ post[id].status = 200
            /\ post[id].body = WorkerOutcome(jobs[id].input)

\* C16: one worker run per job identifier: every POST mints an identifier
\* that no earlier POST got and submits once to the executor with it, so
\* that POSTs with identical input on the same route have different job ids,
\* slots of their own and worker runs of their own.
C16_OneRunPerJobId ==
    /\ \A id \in JobIds :
         /\ runs[id] <= 1
         /\ runs[id] = 1 <=> jobs[id] # NoJob
         /\ jobs[id] # NoJob => cache[jobs[id].route][id].state # "none"
    /\ Cardinality({id \in JobIds : runs[id] = 1}) = minted

\* two POSTs with the same input on the same route have each had a worker
\* run of their own, and both outcomes are stored
C16_Witness ==
    \E id1, id2 \in JobIds :
        /\ id1 # id2
        /\ jobs[id1] # NoJob
        /\ jobs[id1] = jobs[id2]
        /\ runs[id1] = 1 /\ runs[id2] = 1
        /\ running = {}
        /\ cache[jobs[id1].route][id1].state = "ready"
        /\ cache[jobs[id2].route][id2].state = "ready"

\* C17: a GET on a job id that was never created on the route, or whose
\* slot has been evicted, is answered 404 with a text that explains it; and
\* a slot that has expired never becomes pending or ready again.
C17_UnknownOrExpiredIsNotFound ==
    /\ [](lastGet.slot \in {"none", "expired"} =>
            /\ lastGet.found.raised = "KeyError"
            /\ lastGet.resp.status = 404
            /\ lastGet.resp.body =
                 PyStr("job " \o lastGet.job_id \o " can't be found. It either never existed or its result is no longer cached."))
    /\ [][\A p \in Prefixes, id \in JobIds :
            cache[p][id].state = "expired" => cache'[p][id].state = "expired"]_vars

\* a GET has been answered 404 for a job whose worker had finished and
\* whose slot was evicted afterwards
C17_Witness ==
    /\ lastGet.slot = "expired"
    /\ lastGet.resp.status = 404
    /\ jobs[lastGet.job_id].route = lastGet.route
    /\ lastGet.job_id \notin running

\* C18: from the completion of a job on, every lookup of its id finds the
\* outcome that was stored, the same at every read, until the slot is
\* evicted: no lookup made after completion finds the slot pending or finds
\* another outcome, and a read leaves the slot as it is.
C18_ReadyLookupIsStable ==
    /\ \A p \in Prefixes, id \in JobIds :
         cache[p][id].state = "ready" =>
            /\ p = jobs[id].route
            /\ LookupJob(cache[p], id) =
                 [raised |-> "", value |-> WorkerOutcome(jobs[id].input)]
    /\ lastGet.slot = "ready" =>
         /\ lastGet.found =
              [raised |-> "", value |-> WorkerOutcome(jobs[lastGet.job_id].input)]
         /\ cache[lastGet.route][lastGet.job_id] =
              [state |-> "ready", outcome |-> lastGet.found.value]
    /\ (/\ lastGet.route # ""
        /\ jobs[lastGet.job_id].route = lastGet.route
        /\ lastGet.job_id \notin running)
       => /\ lastGet.slot \in {"ready", "expired"}
          /\ lastGet.found.value # Pending

\* a lookup made after the completion of a job has found its stored outcome
C18_Witness ==
    /\ lastGet.slot = "ready"
    /\ lastGet.job_id \notin running
    /\ lastGet.found.raised = ""
    /\ lastGet.found.value = WorkerOutcome(jobs[lastGet.job_id].input)
    /\ IsExecutionError(lastGet.found.value)

\* C19: a slot goes from pending to ready once and holds at most one
\* outcome: complete() on a pending slot stores the outcome, and complete()
\* on an unknown, evicted or ready slot changes nothing, so the outcome
\* stored first stays.
C19_SingleCompletion ==
    lastComplete # NoComplete =>
        LET now == cache[lastComplete.route][lastComplete.job_id] IN
        IF lastComplete.before.state = "pending"
        THEN now = [state |-> "ready", outcome |-> lastComplete.outcome]
        ELSE now = lastComplete.before

\* a second completion signal with another outcome has reached a ready slot,
\* which still holds the first outcome
C19_Witness ==
    /\ lastComplete.before.state = "ready"
    /\ lastComplete.outcome # lastComplete.before.outcome
    /\ cache[lastComplete.route][lastComplete.job_id] = lastComplete.before

----------------------------------------------------------------------------
(* Further properties of Part II *)

\* C20: every request of push_result carries one Is-Error header.  It says
\* error exactly when what is pushed is an ExecutionError, and the body then
\* is the JSON error envelope with Content-Type application/json; it says
\* success exactly when what is pushed is a success payload, and the body
\* and the Content-Type then are the payload's.
C20_IsErrorHeaderMatchesOutcome ==
    push.caller # "" =>
        LET r == push.result
            req == push.request
            flags == {h \in req.headers : h[1] = "Is-Error"}
        IN /\ Cardinality(flags) = 1
           /\ IF IsIvcapResult(r)
              THEN /\ flags = {<<"Is-Error", StrOfBool(FALSE)>>}
                   /\ req.body = r.content
                   /\ <<"Content-Type", PyStr(r.content_type)>> \in req.headers
              ELSE /\ flags = {<<"Is-Error", StrOfBool(TRUE)>>}
                   /\ req.body.json = "ExecutionError"
                   /\ req.body.schema = "urn:ivcap:schema.ai-tool.error.1"
                   /\ <<"Content-Type", PyStr("application/json")>> \in req.headers
                   /\ IsExecutionError(r) => req.body = ErrorJson(r)

\* an ExecutionError has been POSTed, and accepted, with Is-Error saying
\* error
C20_Witness ==
    /\ push.posts >= 1
    /\ IsExecutionError(push.result)
    /\ delivered[push.job_id] = 1
    /\ <<"Is-Error", StrOfBool(TRUE)>> \in push.request.headers

\* a request body that is the JSON form of an ExecutionError
IsErrorEnvelope(b) ==
    /\ {"json", "schema", "error", "type"} \subseteq DOMAIN b
    /\ b.json = "ExecutionError"
    /\ b.schema = "urn:ivcap:schema.ai-tool.error.1"

\* C21: whatever push_result is handed, the body of its request is an
\* envelope: the content of the IvcapResult handed in, or the JSON form of
\* an ExecutionError with "$schema" = "urn:ivcap:schema.ai-tool.error.1".  A
\* value that is neither (None included) is not sent: the body then is the
\* JSON form of an ExecutionError of type InternalError.
C21_PushedBodyIsEnvelope ==
    push.caller # "" =>
        LET r == push.result
            body == push.request.body
        IN /\ IsIvcapResult(r) => body = r.content
           /\ ~IsIvcapResult(r) => IsErrorEnvelope(body)
           /\ IsExecutionError(r) => body = ErrorJson(r)
           /\ (~IsIvcapResult(r) /\ ~IsExecutionError(r))
                 => /\ body # r
                    /\ body.type = PyStr("InternalError")

\* push_result was handed None, and the dispatcher has accepted a POST
\* whose body is an error envelope
C21_Witness ==
    /\ push.caller = "direct"
    /\ push.result = PyNone
    /\ delivered[push.job_id] = 1
    /\ IsErrorEnvelope(push.request.body)

C23_ShapeMapping ==
    (entry = "verify_result" /\ pc = "returned") =>
        /\ IsExecutionError(given) => result = given
        /\ (given.py = "model" /\ ~ModelDumpFails(given))
              => /\ IsIvcapResult(result)
                 /\ result.content =
                      [py |-> "str", json |-> "object", keys |-> "alias",
                       v |-> given.v]
                 /\ result.content_type = "application/json"
                 /\ result.raw = given
        /\ given.py = "str"
              => /\ IsIvcapResult(result)
                 /\ result.content = given
                 /\ result.content_type = "text/plain"
        /\ given.py = "bytes"
              => /\ IsIvcapResult(result)
                 /\ result.content = given
                 /\ result.content_type = "application/octet-stream"
        /\ IsBinaryResult(given)
              => /\ IsIvcapResult(result)
                 /\ result.content = given.content
                 /\ result.content_type = given.content_type

\* verify_result has returned the envelope of a pydantic model, the model
\* kept in raw
C23_Witness ==
    /\ entry = "verify_result"
    /\ pc = "returned"
    /\ given = OutputModel("out")
    /\ IsIvcapResult(result)
    /\ result.raw = given

\* C24: when IVCAP_BASE_URL is not set or is empty, wait_for_work and
\* push_result send no HTTP request and return to their caller.
C24_NoBaseUrlIsNoOp ==
    (base \in {PyNone, PyStr("")} /\ entry \in {"wait_for_work", "push_result"})
    => /\ gets = 0
       /\ \A j \in BatchIds : posted[j] = 0
       /\ pc \in {"start", "returned"}

\* C25: an ExecutionError whose type is ValueError that reaches
\* _return_job_result is answered 400 with the body {message, code}, message
\* the error text and code 400, by the POST that waited for the job and by
\* a GET on its ready slot.
C25_ValueErrorAnswers400 ==
    /\ \A id \in JobIds :
         (post[id].via = "deliver" /\ jobs[id].input.behaviour = "ValueError")
            => /\ post[id].status = 400
               /\ post[id].body =
                    [py |-> "ErrorModel",
                     message |-> WorkerOutcome(jobs[id].input).error,
                     code |-> PyInt(400)]
    /\ (/\ lastGet.slot = "ready"
        /\ jobs[lastGet.job_id].input.behaviour = "ValueError")
            => /\ lastGet.resp.status = 400
               /\ lastGet.resp.body =
                    [py |-> "ErrorModel",
                     message |-> WorkerOutcome(jobs[lastGet.job_id].input).error,
                     code |-> PyInt(400)]

----------------------------------------------------------------------------
(* More properties of Part I *)

\* C26: every route has an Executor and a cache of its own: a slot is only
\* ever held by the cache of the route whose POST minted the job id, a GET
\* for that id on another route finds nothing and answers 404, and a step
\* changes a slot only in the cache of the route the job belongs to.
C26_RoutesAreIndependent ==
    /\ [](/\ \A p \in Prefixes, id \in JobIds :
              cache[p][id].state # "none" => jobs[id].route = p
          /\ (/\ lastGet.route # ""
              /\ jobs[lastGet.job_id] # NoJob
              /\ jobs[lastGet.job_id].route # lastGet.route)
             => /\ lastGet.found.raised = "KeyError"
                /\ lastGet.resp.status = 404)
    /\ [][\A p \in Prefixes, id \in JobIds :
            cache'[p][id] # cache[p][id] => jobs'[id].route = p]_vars

\* a GET on one route for a job id minted on the other route, whose outcome
\* is stored there, has been answered 404
C26_Witness ==
    /\ lastGet.route # ""
    /\ jobs[lastGet.job_id] # NoJob
    /\ jobs[lastGet.job_id].route # lastGet.route
    /\ cache[jobs[lastGet.job_id].route][lastGet.job_id].state = "ready"
    /\ lastGet.resp.status = 404

C30_RaceNeverLosesOutcome ==
    \A id \in JobIds :
        LET p == jobs[id].route
            o == WorkerOutcome(jobs[id].input) IN
        /\ Len(handle[id]) <= 1
        /\ post[id] \notin {NotPosted, Waiting} =>
              \/ /\ post[id].via = "deliver"
                 /\ post[id].status = 200
                 /\ post[id].body = o
                 /\ handle[id] = <<>>
              \/ /\ post[id].via = "timeout"
                 /\ post[id].status = 204
        /\ (/\ post[id].via = "timeout"
            /\ id \notin running
            /\ cache[p][id].state # "expired")
           => /\ cache[p][id] = [state |-> "ready", outcome |-> o]
              /\ GetJobResponse(cache[RouteExecutor(p)], id) = Returned(o)

----------------------------------------------------------------------------
(* More properties of Part II *)

\* C28: the Is-Error header of a request of push_result has the value
\* "true" or the value "false", in lower case.
C28_IsErrorHeaderLowerCase ==
    push.caller # "" =>
        \A h \in push.request.headers :
            h[1] = "Is-Error" => h[2] \in {PyStr("true"), PyStr("false")}

\* json.loads of a JSON text: the value it holds, with the keys it has
JsonLoads(s) ==
    [py |-> IF s.json = "object" THEN "dict" ELSE s.json,
     keys |-> s.keys, v |-> s.v]

\* a structured value as a plain value with its fields under their aliases
\* (a dict has its own keys, a list has none)
ByAlias(x) ==
    [py |-> IF x.py = "model" THEN "dict" ELSE x.py,
     keys |-> IF x.py = "model" THEN "alias" ELSE "name", v |-> x.v]

\* C29: verify_result loses nothing: a text comes back as the stored
\* content with content type text/plain, and for a structured value that
\* can be serialised as JSON (a pydantic model, a dict, a list) the stored
\* content has content type application/json and decodes to a value equal
\* to it, field names by alias.
C29_RoundTrip ==
    (entry = "verify_result" /\ pc = "returned") =>
        /\ given.py = "str"
              => /\ IsIvcapResult(result)
                 /\ result.content_type = "text/plain"
                 /\ result.content = given
        /\ ((given.py = "model" /\ ~ModelDumpFails(given))
            \/ given.py \in {"dict", "list"})
              => /\ IsIvcapResult(result)
                 /\ result.content_type = "application/json"
                 /\ JsonLoads(result.content) = ByAlias(given)

----------------------------------------------------------------------------
(* Properties of the registration of routes *)

\* C31: for every path prefix, the root prefix "/" included, the Location
\* header of a 204 answer is a path that the GET route registered for the
\* same prefix matches, with the job id of that POST.
C31_LocationIsRouted ==
    \A id \in JobIds :
        post[id].via = "timeout" =>
            <<jobs[id].route, id>>
                \in MatchingRoutes(HeaderValue(post[id], "Location"), JobIds)

\* C32: the options of a route are its own: a route registered without
\* opts has the name and the tag derived from its own path prefix,
\* whatever was registered before or after it, and its tool definition
\* carries that name.
C32_OptionsArePerRoute ==
    /\ \A p \in RegPrefixes :
         routeOpts[p] = "default" =>
            /\ heap[routeOpts[p]].name = DefName(p)
            /\ heap[routeOpts[p]].tag = DefTag(p)
    /\ (toolDef # NoToolDef /\ routeOpts[toolDef.route] = "default")
         => toolDef.name = DefName(toolDef.route)

----------------------------------------------------------------------------
(* Properties of the retry loops *)

\* C33: push_result retries the whole request: every POST it sends for a
\* job has the URL, the headers and the body of the first one, and when
\* the content is an open byte stream every body is the whole of the
\* stream's bytes.
C33_PushRetriedAsAWhole ==
    push.caller # "" =>
        \A i \in 1..Len(push.sent) :
            /\ push.sent[i] = push.sent[1]
            /\ IsStream(push.request.body)
                  => push.sent[i].body = StreamBytes(push.request.body)

\* C34: when every attempt fails, fetch_job and push_result wait between
\* attempts only: 4 requests and 3 waits, of 1, 2 and 4 seconds, and after
\* the fourth failure the call gives up (exit status 255 for fetch_job, a
\* return for push_result) with no further wait.
C34_WaitsOnlyBetweenAttempts ==
    /\ fetch.attempt = MAX_REQUEST_JOB_ATTEMPTS
          => /\ fetch.gets = 4
             /\ fetch.sleeps = <<1, 2, 4>>
             /\ pc # "fetch" => (pc = "exited" /\ exit_status = 255)
    /\ push.attempt = MAX_DELIVER_RESULT_ATTEMPTS
          => /\ push.posts = 4
             /\ push.sleeps = <<1, 2, 4>>
             /\ pc # "push" => pc = "returned"

\* C35: the Authorization header of a request of push_result is optional:
\* it is there, with the token as its value, exactly when push_result was
\* handed a token that is neither None nor the empty string.
C35_AuthorizationIsOptional ==
    push.caller # "" =>
        LET auth == {h \in push.request.headers : h[1] = "Authorization"} IN
        IF Truthy(push.token)
        THEN auth = {<<"Authorization", push.token>>}
        ELSE auth = {}

----------------------------------------------------------------------------
(* Properties of Part IV *)

\* the headers of a set other than the two _modify_headers may write
OtherHeaders(hs) == {h \in hs : h[1] \notin {"authorization", "ivcap-job-id"}}

\* C36: in every request that went through the patched send, the job's
\* token has been put in the authorization header only if a token is set
\* and the request goes to "http://ivcap.local", so that no request to
\* another URL carries it; the ivcap-job-id header has been set to the
\* ambient job id exactly when one is set; every other header is as the
\* worker gave it.
C36_TokenOnlyToIvcapLocal ==
    wire # NoWire =>
        LET was(name) == {h \in wire.before : h[1] = name}
            is(name) == {h \in wire.headers : h[1] = name}
        IN /\ is("authorization") # was("authorization")
                => /\ wire.auth # PyNone
                   /\ wire.to = "http://ivcap.local"
                   /\ is("authorization") = {<<"authorization", wire.auth>>}
           /\ wire.to # "http://ivcap.local"
                => \A h \in wire.headers : h[2] # PyStr("Bearer job token")
           /\ IF wire.job_id # PyNone
              THEN is("ivcap-job-id") = {<<"ivcap-job-id", wire.job_id>>}
              ELSE is("ivcap-job-id") = was("ivcap-job-id")
           /\ OtherHeaders(wire.headers) = OtherHeaders(wire.before)

\* a request to http://ivcap.local has gone out with the job's token and
\* the job's id, and a header of the worker's own untouched
C36_Witness ==
    /\ wire.to = "http://ivcap.local"
    /\ wire.auth = PyStr("Bearer job token")
    /\ <<"authorization", wire.auth>> \in wire.headers
    /\ <<"ivcap-job-id", PyStr("job1")>> \in wire.headers
    /\ <<"accept", PyStr("*/*")>> \in wire.headers

----------------------------------------------------------------------------
(* Properties of Part V *)

\* C37: the solver is sound: whatever words of WORD_LIST the secret word
\* and the guesses are, after filter_words has been called with a guess and
\* the feedback check_guess gives for it, the secret word is still one of
\* the solver's possible_words.
C37_SecretStaysPossible ==
    solver.feedback_history # <<>> =>
        \E n \in 1..Len(solver.possible_words) :
            solver.possible_words[n] = game.secret_word

====
